---- MODULE Spec2Model ----
(***************************************************************************)
(* HiveTracks-BEEP-Sync: the import ledger (SQLite), the rule-driven       *)
(* transformation of source records, the sequential upload loop and the    *)
(* control flow of main(), as a state machine.                             *)
(***************************************************************************)
EXTENDS Integers, Sequences, FiniteSets, TLC

VARIABLES
    pc,                 \* position of the process in main(); "idle" = no process
    args,               \* parse_args(): import_from_file, dry_run, upload
    hivetracks_records, \* main: the fetched source records
    records_to_import,  \* main: the records whose id is not in the ledger
    transformed,        \* main: transform_records' output
    idx,                \* upload_records: index of the payload being handled
    ledger,             \* table imported_records: a set of rows (durable)
    preview,            \* file beep-import-preview.json (durable)
    requests,           \* remote requests sent by the current run, in order
    attempts,           \* upload attempts of the current run, in order
    logged,             \* the current run logged an "ERROR: ..." line
    printed,            \* the current run printed an error
    exit_code,          \* exit status of the current run; -1 while it runs
    failure,            \* the fatal failure that ended the current run
    uploaded,           \* history: 2xx responses of the upload endpoint per id
    ledgerAtStart,      \* history: the ledger when the current run started
    marks,              \* history: the mark_imported calls that returned
    run,                \* history: number of runs started
    crashed,            \* history: some run was killed
    okBefore,           \* history: ids uploaded with success by earlier runs
    dataset,            \* the source service's records (fixed)
    mappings,           \* main: load_mappings' result
    tin,                \* input of a transform_records call
    tout                \* its output

vars == <<pc, args, hivetracks_records, records_to_import, transformed, idx,
          ledger, preview, requests, attempts, logged, printed, exit_code,
          failure, uploaded, ledgerAtStart, marks, run, crashed, okBefore,
          dataset, mappings, tin, tout>>

----------------------------------------------------------------------------
(* Bounds of the model.                                                    *)

\* Number of runs of the tool in one behaviour.
MaxRuns == 2
\* Number of direct mark_imported calls in the ledger specification.
MaxMarks == 3
\* Length of feeding_rules in the transformation specification.
MaxRules == 2

----------------------------------------------------------------------------
(* Python values.  Every scalar is a pair (type tag, text) so that None,   *)
(* the string "None", the integer 7 and the string "7" are all different   *)
(* values, as they are in Python and in SQLite's bound parameters.         *)

None == [t |-> "none", v |-> "None"]
S(x) == [t |-> "str", v |-> x]
I(x) == [t |-> "int", v |-> x]
True == [t |-> "bool", v |-> "True"]

\* str(x): None -> "None", 7 -> "7", "a" -> "a".
PyStr(x) == [t |-> "str", v |-> x.v]

\* bool(x) of a scalar.
Truthy(x) ==
    /\ x.t # "none"
    /\ ~(x.t = "str" /\ x.v = "")
    /\ ~(x.t = "int" /\ x.v = "0")
    /\ ~(x.t = "bool" /\ x.v = "False")

\* x or y
PyOr(x, y) == IF Truthy(x) THEN x ELSE y

\* dict.get(key) on a dict modelled as a function; a missing key gives None.
Get(d, k) == IF k \in DOMAIN d THEN d[k] ELSE None

\* d[k] = v on a dict modelled as a function.
Put(d, k, v) == [x \in (DOMAIN d) \cup {k} |-> IF x = k THEN v ELSE d[x]]

\* The empty dict.
EmptyDict == [x \in {} |-> None]

\* d.update(pairs), pairs a sequence of <<key, value>> in the dict's order.
RECURSIVE Update(_, _)
Update(d, pairs) ==
    IF pairs = <<>> THEN d
    ELSE Update(Put(d, Head(pairs)[1], Head(pairs)[2]), Tail(pairs))

\* x in s for text: s and x are sequences of characters.
Contains(s, x) ==
    \E i \in 0..(Len(s) - Len(x)) : SubSeq(s, i + 1, i + Len(x)) = x

\* A record r has scalar fields (r.f) and sequence-valued fields (r.q: text
\* read with `in`, and lists).  r.get(name, []) or [] / r.get(name) or "".
GetSeq(r, k) == IF k \in DOMAIN r.q THEN r.q[k] ELSE <<>>

----------------------------------------------------------------------------
(* SQLite: table imported_records with PRIMARY KEY record_id.              *)

Row(record_id, action_date, checklist_id) ==
    [record_id |-> record_id, action_date |-> action_date,
     checklist_id |-> checklist_id]

\* SELECT record_id FROM imported_records, as a set.
get_imported_ids(conn) == {row.record_id : row \in conn}

\* (mutant) INSERT OR REPLACE: the new row takes the place of the old one.
mark_imported_replace(conn, record_id, action_date, checklist_id) ==
    {row \in conn : row.record_id # record_id}
        \cup {Row(record_id, action_date, checklist_id)}

\* INSERT OR IGNORE: a row whose primary key is present is left as it is.
mark_imported(conn, record_id, action_date, checklist_id) ==
    IF record_id \in get_imported_ids(conn)
    THEN conn
    ELSE conn \cup {Row(record_id, action_date, checklist_id)}

----------------------------------------------------------------------------
(* transform_records.                                                      *)
(* A mapping ruleset m: field_map a sequence of <<code, field>>; enums a   *)
(* sequence of <<field, value_map>>, value_map a sequence of <<value,      *)
(* pairs>>; stages_flags [field, flags], flags a sequence of <<label,      *)
(* code>>; feeding_rules a sequence of rules; checklist_fallback a name.   *)
(* Sequences keep the order of the JSON document, which is the order in    *)
(* which Python iterates the dicts.                                        *)

\* {x["name"]: x["id"] for x in lst if x.get("name") and x.get("id")}
RECURSIVE NameIdMap(_)
NameIdMap(lst) ==
    IF lst = <<>> THEN EmptyDict
    ELSE LET x == lst[Len(lst)]
             rest == NameIdMap(SubSeq(lst, 1, Len(lst) - 1))
         IN IF Truthy(x.name) /\ Truthy(x.id) THEN Put(rest, x.name, x.id)
            ELSE rest

\* 1) field_map: copy when the field is present and not None.
RECURSIVE ApplyFieldMap(_, _, _)
ApplyFieldMap(items, r, fm) ==
    IF fm = <<>> THEN items
    ELSE LET beep_item_id == Head(fm)[1]
             ht_field == Head(fm)[2]
         IN ApplyFieldMap(
                IF ht_field \in DOMAIN r.f /\ Get(r.f, ht_field) # None
                THEN Put(items, beep_item_id, Get(r.f, ht_field))
                ELSE items,
                r, Tail(fm))

\* value_map[ht_val] when ht_val in value_map, else no pairs.
RECURSIVE EnumPairs(_, _)
EnumPairs(value_map, ht_val) ==
    IF value_map = <<>> THEN <<>>
    ELSE IF Head(value_map)[1] = ht_val THEN Head(value_map)[2]
    ELSE EnumPairs(Tail(value_map), ht_val)

\* 2) enums: merge the pairs of the field's current value.
RECURSIVE ApplyEnums(_, _, _)
ApplyEnums(items, r, enums) ==
    IF enums = <<>> THEN items
    ELSE LET ht_field == Head(enums)[1]
             value_map == Head(enums)[2]
             ht_val == Get(r.f, ht_field)
         IN ApplyEnums(Update(items, EnumPairs(value_map, ht_val)),
                       r, Tail(enums))

\* 3) stages_flags: a label present in the record's stage list sets its
\*    item (keyed by str(beep_item_id)) to True.
RECURSIVE ApplyFlags(_, _, _)
ApplyFlags(items, stages, flags) ==
    IF flags = <<>> THEN items
    ELSE LET label == Head(flags)[1]
             beep_item_id == Head(flags)[2]
         IN ApplyFlags(
                IF \E i \in 1..Len(stages) : stages[i] = label
                THEN Put(items, PyStr(beep_item_id).v, True)
                ELSE items,
                stages, Tail(flags))

ApplyStages(items, r, stages_cfg) ==
    ApplyFlags(items, GetSeq(r, stages_cfg.field), stages_cfg.flags)

\* The three conditions of one feeding rule.
MatchType(rule, food_type) == rule.has_type /\ food_type = rule.if_type
MatchAny(rule, food_other) ==
    rule.has_any /\ \E i \in 1..Len(rule.any) : Contains(food_other, rule.any[i])
MatchContains(rule, food_other) ==
    rule.has_contains /\ Contains(food_other, rule.contains)

\* One rule: up to three items.update(rule.get("set", {})).
ApplyRule(items, rule, food_type, food_other) ==
    LET i1 == IF MatchType(rule, food_type) THEN Update(items, rule.set)
              ELSE items
        i2 == IF MatchAny(rule, food_other) THEN Update(i1, rule.set) ELSE i1
    IN IF MatchContains(rule, food_other) THEN Update(i2, rule.set) ELSE i2

\* 4) feeding_rules, in declared order.
RECURSIVE ApplyFeeding(_, _, _, _)
ApplyFeeding(items, rules, food_type, food_other) ==
    IF rules = <<>> THEN items
    ELSE ApplyFeeding(ApplyRule(items, Head(rules), food_type, food_other),
                      Tail(rules), food_type, food_other)

\* (mutant) the enums table applied after the feeding rules.
BuildItemsEnumsLast(r, m) ==
    LET a == ApplyFieldMap(EmptyDict, r, m.field_map)
        c == ApplyStages(a, r, m.stages_flags)
        d == ApplyFeeding(c, m.feeding_rules, Get(r.f, "feedBeesFoodType"),
                          GetSeq(r, "feedBeesFoodTypeOther"))
    IN ApplyEnums(d, r, m.enums)

\* Lines 203-235: items of one record.
BuildItems(r, m) ==
    LET a == ApplyFieldMap(EmptyDict, r, m.field_map)
        b == ApplyEnums(a, r, m.enums)
        c == ApplyStages(b, r, m.stages_flags)
    IN ApplyFeeding(c, m.feeding_rules, Get(r.f, "feedBeesFoodType"),
                    GetSeq(r, "feedBeesFoodTypeOther"))

\* 5) hive ids of the record's hive names; unknown names are dropped.
RECURSIVE HiveIds(_, _)
HiveIds(hives, hive_map) ==
    IF hives = <<>> THEN <<>>
    ELSE (IF Truthy(Get(hive_map, Head(hives)))
          THEN <<Get(hive_map, Head(hives))>> ELSE <<>>)
         \o HiveIds(Tail(hives), hive_map)

\* (mutant) the fallback looked up before the record's type.
ResolveFallbackFirst(rec_type, checklist_map, checklist_fallback_name) ==
    PyOr(Get(checklist_map, checklist_fallback_name),
         Get(checklist_map, rec_type))

\* 6) checklist_map.get(rec_type) or checklist_map.get(checklist_fallback)
ResolveChecklist(rec_type, checklist_map, checklist_fallback_name) ==
    PyOr(Get(checklist_map, rec_type),
         Get(checklist_map, checklist_fallback_name))

\* 7) None if rec_type in checklist_map else f"Missing: {type}/{typeOther}"
Reminder(r, checklist_map) ==
    IF Get(r.f, "type") \in DOMAIN checklist_map THEN None
    ELSE S("Missing: " \o PyStr(Get(r.f, "type")).v \o "/"
           \o PyStr(Get(r.f, "typeOther")).v)

\* 8) strptime(r["actionDate"], "%Y-%m-%dT%H:%M:%S.%fZ") raises when the
\*    key is missing or the text does not match; strftime drops the fraction.
DateOk(r) == r.d.state = "ok"
NormalizeDate(r) == S(r.d.secs \o "Z")

\* The provenance's checklist id: str(checklist_id).
ProvenanceChecklist(checklist_id) == PyStr(checklist_id)

\* One iteration of the loop over records (for a record that parses).
TransformRecord(r, hive_map, checklist_map, m) ==
    LET checklist_id ==
            ResolveChecklist(Get(r.f, "type"), checklist_map,
                             m.checklist_fallback)
        payload == [date |-> NormalizeDate(r),
                    checklist_id |-> checklist_id,
                    reminder |-> Reminder(r, checklist_map),
                    notes |-> Get(r.f, "notes"),
                    hive_ids |-> HiveIds(GetSeq(r, "hives"), hive_map),
                    items |-> BuildItems(r, m)]
    IN [payload |-> payload, src_id |-> PyStr(Get(r.f, "id")),
        checklist_id |-> ProvenanceChecklist(checklist_id)]

\* transform_records: the tuples in input order, or the exception of the
\* first record whose date does not parse.
transform_records(records, beep_hives, beep_checklists, m) ==
    LET hive_map == NameIdMap(beep_hives)
        checklist_map == NameIdMap(beep_checklists)
    IN IF \E i \in 1..Len(records) : ~DateOk(records[i])
       THEN [raised |-> TRUE, out |-> <<>>]
       ELSE [raised |-> FALSE,
             out |-> [i \in 1..Len(records) |->
                        TransformRecord(records[i], hive_map, checklist_map, m)]]

----------------------------------------------------------------------------
(* load_mappings: the defaults of a ruleset document.                      *)

DefaultStagesFlags == [field |-> "inspectionBroodStages", flags |-> <<>>]

\* m.setdefault(...) for the five keys; doc is the parsed JSON object.
load_mappings(doc) ==
    [field_map |-> IF "field_map" \in DOMAIN doc THEN doc.field_map ELSE <<>>,
     enums |-> IF "enums" \in DOMAIN doc THEN doc.enums ELSE <<>>,
     stages_flags |-> IF "stages_flags" \in DOMAIN doc THEN doc.stages_flags
                      ELSE DefaultStagesFlags,
     feeding_rules |-> IF "feeding_rules" \in DOMAIN doc THEN doc.feeding_rules
                       ELSE <<>>,
     checklist_fallback |-> IF "checklist_fallback" \in DOMAIN doc
                            THEN doc.checklist_fallback ELSE S("TBD")]

----------------------------------------------------------------------------
(* The data of the runs: a source dataset, the destination's reference     *)
(* data and the ruleset documents a run may find.                          *)

Rule(has_type, if_type, has_any, any, has_contains, contains, set) ==
    [has_type |-> has_type, if_type |-> if_type, has_any |-> has_any,
     any |-> any, has_contains |-> has_contains, contains |-> contains,
     set |-> set]

SourceRecord(id, type, state, secs, stages, food) ==
    [f |-> [k \in {"id", "type", "typeOther", "notes", "feedBeesFoodType",
                   "queenSeen"} |->
              CASE k = "id" -> id
                [] k = "type" -> type
                [] k = "typeOther" -> None
                [] k = "notes" -> S("n")
                [] k = "feedBeesFoodType" -> food
                [] OTHER -> S("yes")],
     q |-> [k \in {"hives", "inspectionBroodStages", "feedBeesFoodTypeOther"} |->
              CASE k = "hives" -> <<S("Hive A"), S("Unknown")>>
                [] k = "inspectionBroodStages" -> stages
                [] OTHER -> <<"s", "u", "g", "a", "r">>],
     d |-> [state |-> state, secs |-> secs, frac |-> "789012"]]

R1 == SourceRecord(I("101"), S("Inspection"), "ok", "2024-05-11T12:34:56",
                   <<S("eggs")>>, S("syrup"))
R2 == SourceRecord(I("102"), S("Foo"), "ok", "2024-05-12T08:00:00",
                   <<>>, None)
R3 == SourceRecord(I("103"), S("Feeding"), "ok", "2024-05-13T09:30:00",
                   <<S("larvae")>>, S("pollen"))
R2Malformed == SourceRecord(I("102"), S("Foo"), "malformed", "2024-05-12 08:00",
                            <<>>, None)

\* The source datasets: ids are unique within each.
Datasets == { <<R1, R2, R3>>, <<R1, R2Malformed, R3>> }

\* The text of a source id, as the ledger stores it.
IdTexts == {"101", "102", "103"}

BeepHives == << [name |-> S("Hive A"), id |-> I("11")] >>
BeepChecklists == << [name |-> S("Inspection"), id |-> I("5")],
                     [name |-> S("TBD"), id |-> I("9")] >>

FullDoc ==
    [field_map |-> << <<"700", "queenSeen">> >>,
     enums |-> << <<"queenSeen", << <<S("yes"), << <<"701", I("1")>> >> >> >> >> >>,
     stages_flags |-> [field |-> "inspectionBroodStages",
                       flags |-> << <<S("eggs"), I("702")>> >>],
     feeding_rules |-> << Rule(TRUE, S("syrup"), FALSE, <<>>, FALSE, <<>>,
                               << <<"703", I("2")>> >>) >>,
     checklist_fallback |-> S("TBD")]

\* The ruleset documents a run may read: complete, or with only some keys.
MappingDocs == { FullDoc, [field_map |-> FullDoc.field_map] }

----------------------------------------------------------------------------
(* main() and upload_records.                                              *)

ArgSets == [import_from_file : BOOLEAN, dry_run : BOOLEAN, upload : BOOLEAN]

NoPreview == [written |-> FALSE, content |-> <<>>]
NoMappings == load_mappings([x \in {} |-> <<>>])
NoArgs == [import_from_file |-> FALSE, dry_run |-> FALSE, upload |-> FALSE]
NoTransform == [raised |-> FALSE, out |-> <<>>]

\* The requests of the API branch of main, in order.
FetchRequests == <<"ht_login", "ht_records", "beep_login", "beep_checklists",
                   "beep_hives">>

\* [r for r in hivetracks_records if str(r.get("id")) not in imported_ids]
RECURSIVE FilterRecords(_, _)
FilterRecords(records, imported_ids) ==
    IF records = <<>> THEN <<>>
    ELSE (IF PyStr(Get(Head(records).f, "id")) \notin imported_ids
          THEN <<Head(records)>> ELSE <<>>)
         \o FilterRecords(Tail(records), imported_ids)

\* [p for (p, _src, _chk) in transformed]
Payloads(out) == [i \in 1..Len(out) |-> out[i].payload]

\* (mutant) the upload branch tested before the dry-run branch.
BranchUploadFirst(a) ==
    IF a.upload THEN "login"
    ELSE IF a.dry_run THEN "preview"
    ELSE "summary"

\* Where main goes after the transformation.
Branch(a) ==
    IF a.dry_run THEN "preview"
    ELSE IF a.upload THEN "login"
    ELSE "summary"

\* (mutant) mark_imported outside the try block's success path.
AfterPostAlways(ok) == "mark"

\* try/except of upload_records: mark_imported follows a 2xx response only.
AfterPost(ok) == IF ok THEN "mark" ELSE "upload"

\* (mutant) a failed attempt ends the loop.
NextIndexAbort(i, n, ok) == IF ok THEN i + 1 ELSE n + 1

\* The loop goes on to the next payload whatever the outcome.
NextIndex(i, n, ok) == i + 1

\* The last entry of attempts with the outcome of its mark_imported call.
SetMark(att, outcome) == [att EXCEPT ![Len(att)] = [@ EXCEPT !.mark = outcome]]

tvars == <<tin, tout>>
runvars == <<args, hivetracks_records, records_to_import, transformed, idx,
             requests, attempts, mappings>>
outvars == <<logged, printed, exit_code, failure>>
histvars == <<uploaded, ledgerAtStart, marks, run, crashed, okBefore, dataset>>

\* except Exception as e: log, print, sys.exit(1)
Fatal(kind) ==
    /\ logged' = TRUE
    /\ printed' = TRUE
    /\ exit_code' = 1
    /\ failure' = kind
    /\ pc' = "done"

\* An exception outside the try block: the interpreter prints the traceback
\* and exits with status 1; nothing is written to the log.
Uncaught(kind) ==
    /\ logged' = FALSE
    /\ printed' = TRUE
    /\ exit_code' = 1
    /\ failure' = kind
    /\ pc' = "done"

StartRun ==
    /\ pc \in {"idle", "done"}
    /\ run < MaxRuns
    /\ \E a \in ArgSets : args' = a
    /\ pc' = "env"
    /\ run' = run + 1
    /\ hivetracks_records' = <<>>
    /\ records_to_import' = <<>>
    /\ transformed' = <<>>
    /\ idx' = 0
    /\ requests' = <<>>
    /\ attempts' = <<>>
    /\ mappings' = NoMappings
    /\ logged' = FALSE
    /\ printed' = FALSE
    /\ exit_code' = -1
    /\ failure' = "none"
    /\ ledgerAtStart' = ledger
    /\ okBefore' = {i \in IdTexts : uploaded[i] > 0}
    /\ UNCHANGED <<ledger, preview, uploaded, marks, crashed, dataset, tvars>>

RequireEnv ==
    /\ pc = "env"
    /\ \E present \in BOOLEAN :
          IF present
          THEN pc' = "db" /\ UNCHANGED outvars
          ELSE Uncaught("credential")
    /\ UNCHANGED <<runvars, ledger, preview, histvars, tvars>>

InitDb ==
    /\ pc = "db"
    /\ \E opened \in BOOLEAN :
          IF opened
          THEN pc' = "load" /\ UNCHANGED outvars
          ELSE Uncaught("storage")
    /\ UNCHANGED <<runvars, ledger, preview, histvars, tvars>>

LoadFromFiles ==
    /\ pc = "load"
    /\ args.import_from_file
    /\ \E found \in BOOLEAN :
          IF found
          THEN /\ hivetracks_records' = dataset
               /\ pc' = "filter"
               /\ UNCHANGED outvars
          ELSE Fatal("fetch") /\ UNCHANGED hivetracks_records
    /\ UNCHANGED <<args, records_to_import, transformed, idx, requests,
                   attempts, mappings, ledger, preview, histvars, tvars>>

\* The five requests of the API branch, the first k of them sent and the last
\* of those failing when ok is false (the pages of get_hivetracks_records
\* count as one request).
LoadFromApis ==
    /\ pc = "load"
    /\ ~args.import_from_file
    /\ \E k \in 1..Len(FetchRequests), ok \in BOOLEAN :
          /\ ~ok \/ k = Len(FetchRequests)
          /\ requests' = requests \o SubSeq(FetchRequests, 1, k)
          /\ IF ok
             THEN /\ hivetracks_records' = dataset
                  /\ pc' = "filter"
                  /\ UNCHANGED outvars
             ELSE Fatal("fetch") /\ UNCHANGED hivetracks_records
    /\ UNCHANGED <<args, records_to_import, transformed, idx, attempts,
                   mappings, ledger, preview, histvars, tvars>>

FilterImported ==
    /\ pc = "filter"
    /\ records_to_import' =
          FilterRecords(hivetracks_records, get_imported_ids(ledger))
    /\ pc' = "mappings"
    /\ UNCHANGED <<args, hivetracks_records, transformed, idx, requests,
                   attempts, mappings, outvars, ledger, preview, histvars,
                   tvars>>

LoadMappings ==
    /\ pc = "mappings"
    /\ \/ \E doc \in MappingDocs :
             /\ mappings' = load_mappings(doc)
             /\ pc' = "transform"
             /\ UNCHANGED outvars
       \/ Fatal("ruleset") /\ UNCHANGED mappings
    /\ UNCHANGED <<args, hivetracks_records, records_to_import, transformed,
                   idx, requests, attempts, ledger, preview, histvars, tvars>>

Transform ==
    /\ pc = "transform"
    /\ LET res == transform_records(records_to_import, BeepHives,
                                    BeepChecklists, mappings)
       IN IF res.raised
          THEN Fatal("timestamp") /\ UNCHANGED transformed
          ELSE /\ transformed' = res.out
               /\ pc' = Branch(args)
               /\ UNCHANGED outvars
    /\ UNCHANGED <<args, hivetracks_records, records_to_import, idx, requests,
                   attempts, mappings, ledger, preview, histvars, tvars>>

DryRun ==
    /\ pc = "preview"
    /\ preview' = [written |-> TRUE, content |-> Payloads(transformed)]
    /\ exit_code' = 0
    /\ pc' = "done"
    /\ UNCHANGED <<runvars, logged, printed, failure, ledger, histvars, tvars>>

UploadLogin ==
    /\ pc = "login"
    /\ requests' = Append(requests, "beep_login")
    /\ \E ok \in BOOLEAN :
          IF ok
          THEN pc' = "upload" /\ idx' = 1 /\ UNCHANGED outvars
          ELSE Fatal("fetch") /\ UNCHANGED idx
    /\ UNCHANGED <<args, hivetracks_records, records_to_import, transformed,
                   attempts, mappings, ledger, preview, histvars, tvars>>

UploadPost ==
    /\ pc = "upload"
    /\ idx <= Len(transformed)
    /\ requests' = Append(requests, "upload")
    /\ \E ok \in BOOLEAN :
          /\ attempts' = Append(attempts,
                [src_id |-> transformed[idx].src_id, ok |-> ok,
                 mark |-> "none"])
          /\ uploaded' = IF ok
                THEN [uploaded EXCEPT ![transformed[idx].src_id.v] = @ + 1]
                ELSE uploaded
          /\ pc' = AfterPost(ok)
          /\ idx' = IF AfterPost(ok) = "mark" THEN idx
                    ELSE NextIndex(idx, Len(transformed), ok)
    /\ UNCHANGED <<args, hivetracks_records, records_to_import, transformed,
                   mappings, outvars, ledger, preview, ledgerAtStart, marks,
                   run, crashed, okBefore, dataset, tvars>>

MarkImported ==
    /\ pc = "mark"
    /\ LET t == transformed[idx]
       IN \E written \in BOOLEAN :
             /\ IF written
                THEN /\ ledger' = mark_imported(ledger, t.src_id,
                                                t.payload.date, t.checklist_id)
                     /\ marks' = Append(marks, Row(t.src_id, t.payload.date,
                                                   t.checklist_id))
                     /\ attempts' = SetMark(attempts, "written")
                ELSE /\ attempts' = SetMark(attempts, "error")
                     /\ UNCHANGED <<ledger, marks>>
             /\ idx' = NextIndex(idx, Len(transformed), written)
    /\ pc' = "upload"
    /\ UNCHANGED <<args, hivetracks_records, records_to_import, transformed,
                   requests, mappings, outvars, preview, uploaded,
                   ledgerAtStart, run, crashed, okBefore, dataset, tvars>>

UploadDone ==
    /\ pc = "upload"
    /\ idx > Len(transformed)
    /\ pc' = "summary"
    /\ UNCHANGED <<runvars, outvars, ledger, preview, histvars, tvars>>

Summary ==
    /\ pc = "summary"
    /\ exit_code' = 0
    /\ pc' = "done"
    /\ UNCHANGED <<runvars, logged, printed, failure, ledger, preview,
                   histvars, tvars>>

\* The process is killed; only the durable state survives.
Crash ==
    /\ pc \notin {"idle", "done"}
    /\ pc' = "done"
    /\ failure' = "killed"
    /\ exit_code' = 137
    /\ crashed' = TRUE
    /\ UNCHANGED <<runvars, logged, printed, ledger, preview, uploaded,
                   ledgerAtStart, marks, run, okBefore, dataset, tvars>>

Init ==
    /\ pc = "idle"
    /\ args = NoArgs
    /\ hivetracks_records = <<>>
    /\ records_to_import = <<>>
    /\ transformed = <<>>
    /\ idx = 0
    /\ ledger = {}
    /\ preview = NoPreview
    /\ requests = <<>>
    /\ attempts = <<>>
    /\ logged = FALSE
    /\ printed = FALSE
    /\ exit_code = -1
    /\ failure = "none"
    /\ uploaded = [i \in IdTexts |-> 0]
    /\ ledgerAtStart = {}
    /\ marks = <<>>
    /\ run = 0
    /\ crashed = FALSE
    /\ okBefore = {}
    /\ dataset \in Datasets
    /\ mappings = NoMappings
    /\ tin = <<>>
    /\ tout = NoTransform

Next ==
    \/ StartRun
    \/ RequireEnv
    \/ InitDb
    \/ LoadFromFiles
    \/ LoadFromApis
    \/ FilterImported
    \/ LoadMappings
    \/ Transform
    \/ DryRun
    \/ UploadLogin
    \/ UploadPost
    \/ MarkImported
    \/ UploadDone
    \/ Summary
    \/ Crash

Spec == Init /\ [][Next]_vars

----------------------------------------------------------------------------
(* Properties of the runs.                                                 *)

LedgerIds == get_imported_ids(ledger)
AttemptIds == [k \in 1..Len(attempts) |-> attempts[k].src_id]
TransformedIds == [k \in 1..Len(transformed) |-> transformed[k].src_id]
Requested(kind) == \E k \in 1..Len(requests) : requests[k] = kind

\* C1: idempotent import.  When the pipeline is run twice in sequence (no run
\* is killed), every source record gets a successful upload at most once, and
\* the later run attempts no upload for a record whose upload succeeded in
\* an earlier run.
C1_IdempotentImport ==
    ~crashed =>
        /\ \A i \in IdTexts : uploaded[i] <= 1
        /\ \A k \in 1..Len(attempts) : attempts[k].src_id.v \notin okBefore

\* C2: across any sequence of runs over the same dataset, with runs killed at
\* any point and uploads or ledger writes failing, every source record id is
\* successfully uploaded at most once.
C2_AtMostOnceAcrossFailures == \A i \in IdTexts : uploaded[i] <= 1

\* C3: every record id in the ledger is the id of a record whose upload got a
\* successful response earlier; a failed upload attempt leaves the record
\* out of the ledger, and a record that is not in the ledger is eligible
\* (in records_to_import) in the run that filters next.
C3_LedgerOnlyAfterSuccess ==
    /\ \A row \in ledger : uploaded[row.record_id.v] >= 1
    /\ \A k \in 1..Len(attempts) :
          ~attempts[k].ok =>
              /\ attempts[k].src_id \notin LedgerIds
              /\ attempts[k].mark = "none"
    /\ pc = "mappings" =>
          \A i \in 1..Len(hivetracks_records) :
              LET id == PyStr(hivetracks_records[i].f.id)
              IN id \notin LedgerIds =>
                    \E j \in 1..Len(records_to_import) :
                        records_to_import[j] = hivetracks_records[i]

\* The second of two runs, none killed: the first run ledgered a record and
\* its attempt for record i failed (i has no successful upload and the first
\* run went through the whole batch); i is not in the ledger and is eligible
\* again.
C3_Witness ==
    /\ run = 2
    /\ ~crashed
    /\ pc = "mappings"
    /\ ledger # {}
    /\ \E i \in IdTexts :
          /\ uploaded[i] = 0
          /\ S(i) \notin LedgerIds
          /\ \E j \in 1..Len(records_to_import) :
                PyStr(records_to_import[j].f.id) = S(i)

C6_ConfigErrorBeforeRemoteIO ==
    failure \in {"credential", "ruleset"} => requests = <<>>

\* C9: in a dry run, also with --upload, nothing is sent to the upload
\* endpoint, no upload is attempted and the ledger stays as it was when the
\* run started; a dry run that completes has written the payloads of the
\* transformed tuples, in order and without provenance, to the preview file.
C9_DryRun ==
    args.dry_run =>
        /\ ledger = ledgerAtStart
        /\ attempts = <<>>
        /\ ~Requested("upload")
        /\ pc \notin {"login", "upload", "mark", "summary"}
        /\ (pc = "done" /\ exit_code = 0) =>
              /\ preview.written
              /\ Len(preview.content) = Len(transformed)
              /\ \A k \in 1..Len(transformed) :
                    /\ preview.content[k] = transformed[k].payload
                    /\ DOMAIN preview.content[k] =
                          {"date", "checklist_id", "reminder", "notes",
                           "hive_ids", "items"}
              /\ TransformedIds =
                    [k \in 1..Len(records_to_import) |->
                        PyStr(records_to_import[k].f.id)]

\* A completed dry run with --upload that wrote three payloads.
C9_Witness ==
    /\ pc = "done"
    /\ exit_code = 0
    /\ args.dry_run
    /\ args.upload
    /\ preview.written
    /\ Len(preview.content) = 3

\* C10: every fatal failure is logged and printed before the process exits
\* with a non-zero status, and a failure to open the ledger store ends the
\* run before any record is fetched, transformed or uploaded.
C10_FatalLoggedAndPrinted ==
    /\ failure \in {"credential", "storage", "fetch", "ruleset", "timestamp"} =>
          logged /\ printed /\ exit_code # 0
    /\ failure = "storage" =>
          /\ hivetracks_records = <<>>
          /\ transformed = <<>>
          /\ requests = <<>>

----------------------------------------------------------------------------
(* The ledger on its own: mark_imported called with any arguments.         *)

MarkDates == {S("2024-05-11T12:34:56Z"), S("2024-05-12T08:00:00Z")}
MarkChecklists == {S("5"), S("None")}

\* mark_imported(conn, record_id, action_date, checklist_id) returns.
MarkCall ==
    /\ Len(marks) < MaxMarks
    /\ \E i \in IdTexts, date \in MarkDates, chk \in MarkChecklists :
          /\ ledger' = mark_imported(ledger, S(i), date, chk)
          /\ marks' = Append(marks, Row(S(i), date, chk))
    /\ UNCHANGED <<pc, runvars, outvars, preview, uploaded, ledgerAtStart,
                   run, crashed, okBefore, dataset, tvars>>

NextLedger == MarkCall

SpecLedger == Init /\ [][NextLedger]_vars

\* The first mark_imported call of marks for the id of marks[k].
IsFirstMark(k) == \A j \in 1..(k - 1) : marks[j].record_id # marks[k].record_id

\* C5: after any sequence of mark_imported calls the ledger holds exactly one
\* entry per distinct record id marked, with the action_date and checklist_id
\* of the first mark of that id; a later mark of the id changes nothing, and
\* no entry is ever changed or removed.
C5_LedgerFirstWriteWins ==
    /\ \A k \in 1..Len(marks) :
          /\ Cardinality({row \in ledger :
                             row.record_id = marks[k].record_id}) = 1
          /\ IsFirstMark(k) => marks[k] \in ledger
    /\ \A row \in ledger : \E k \in 1..Len(marks) : marks[k] = row
    /\ get_imported_ids(ledger) =
          {marks[k].record_id : k \in 1..Len(marks)}

\* An id marked twice with different values.
C5_Witness ==
    \E j, k \in 1..Len(marks) :
        /\ j < k
        /\ marks[j].record_id = marks[k].record_id
        /\ marks[j] # marks[k]
        /\ marks[j] \in ledger

----------------------------------------------------------------------------
(* transform_records on its own: one record, any ruleset of a bounded      *)
(* family, any checklist reference of a bounded family.                    *)

TRecord(queen, stages, food, other, type, state) ==
    [f |-> [k \in {"id", "type", "typeOther", "notes", "feedBeesFoodType"}
                  \cup (IF queen = "absent" THEN {} ELSE {"queenSeen"}) |->
              CASE k = "id" -> I("101")
                [] k = "type" -> type
                [] k = "typeOther" -> IF type = S("Foo") THEN S("misc") ELSE None
                [] k = "notes" -> S("n")
                [] k = "feedBeesFoodType" -> food
                [] OTHER -> IF queen = "null" THEN None ELSE S(queen)],
     q |-> [k \in {"hives", "inspectionBroodStages", "feedBeesFoodTypeOther"} |->
              CASE k = "hives" -> <<S("Hive A"), S("Unknown")>>
                [] k = "inspectionBroodStages" -> stages
                [] OTHER -> other],
     d |-> [state |-> state, secs |-> "2024-05-11T12:34:56", frac |-> "789012"]]

TRecords ==
    { TRecord(queen, stages, food, other, type, state) :
        queen \in {"absent", "null", "yes"},
        stages \in {<<>>, <<S("larvae"), S("eggs")>>},
        food \in {None, S("syrup")},
        other \in {<<>>, <<"s", "u", "g">>},
        type \in {S("Inspection"), S("Foo"), None},
        state \in {"ok", "malformed"} }

RuleA == Rule(TRUE, S("syrup"), FALSE, <<>>, FALSE, <<>>,
              << <<"700", S("A")>>, <<"703", S("A")>> >>)
RuleB == Rule(FALSE, None, FALSE, <<>>, TRUE, <<"s", "u">>,
              << <<"700", S("B")>> >>)
RuleC == Rule(FALSE, None, TRUE, << <<"x">>, <<"g">> >>, FALSE, <<>>,
              << <<"703", S("C")>>, <<"700", S("C")>> >>)

RECURSIVE RuleSeqs(_)
RuleSeqs(n) ==
    IF n = 0 THEN {<<>>}
    ELSE RuleSeqs(n - 1)
         \cup {Append(q, x) : q \in {p \in RuleSeqs(n - 1) : Len(p) = n - 1},
                               x \in {RuleA, RuleB, RuleC}}

TMappings ==
    { [field_map |-> fm, enums |-> en,
       stages_flags |-> [field |-> "inspectionBroodStages", flags |-> fl],
       feeding_rules |-> fr, checklist_fallback |-> fb] :
        fm \in {<<>>, << <<"700", "queenSeen">>, <<"704", "notes">> >>},
        en \in {<<>>, << <<"queenSeen",
                           << <<S("yes"), << <<"700", S("E")>>,
                                             <<"701", S("E")>> >> >> >> >> >>},
        fl \in {<<>>, << <<S("eggs"), I("700")>>, <<S("larvae"), I("702")>> >>},
        fr \in RuleSeqs(MaxRules),
        fb \in {S("TBD"), S("Nope")} }

TChecklists ==
    { BeepChecklists,
      << [name |-> S("Inspection"), id |-> I("5")] >>,
      << [name |-> S("Inspection"), id |-> I("0")],
         [name |-> S("TBD"), id |-> I("9")] >> }

InitTransform ==
    /\ pc = "idle"
    /\ args = NoArgs
    /\ hivetracks_records = <<>>
    /\ records_to_import = <<>>
    /\ transformed = <<>>
    /\ idx = 0
    /\ ledger = {}
    /\ preview = NoPreview
    /\ requests = <<>>
    /\ attempts = <<>>
    /\ logged = FALSE
    /\ printed = FALSE
    /\ exit_code = -1
    /\ failure = "none"
    /\ uploaded = [i \in IdTexts |-> 0]
    /\ ledgerAtStart = {}
    /\ marks = <<>>
    /\ run = 0
    /\ crashed = FALSE
    /\ okBefore = {}
    /\ dataset = <<R1, R2, R3>>
    /\ mappings = NoMappings
    /\ tin \in [rec : TRecords, m : TMappings, checklists : TChecklists]
    /\ tout = NoTransform

\* transform_records([rec], beep_hives, beep_checklists, m)
TransformCall ==
    /\ tout = NoTransform
    /\ tout' = transform_records(<<tin.rec>>, BeepHives, tin.checklists, tin.m)
    /\ UNCHANGED <<pc, runvars, outvars, ledger, preview, histvars, tin>>

NextTransform == TransformCall

SpecTransform == InitTransform /\ [][NextTransform]_vars

Transformed == tout # NoTransform /\ ~tout.raised

TRec == tin.rec
TItems == tout.out[1].payload.items
TPayload == tout.out[1].payload

\* What each table sets on its own for the record.
ByFieldMap == ApplyFieldMap(EmptyDict, TRec, tin.m.field_map)
ByEnums == ApplyEnums(EmptyDict, TRec, tin.m.enums)
ByStages == ApplyStages(EmptyDict, TRec, tin.m.stages_flags)
ByFeeding ==
    ApplyFeeding(EmptyDict, tin.m.feeding_rules,
                 Get(TRec.f, "feedBeesFoodType"),
                 GetSeq(TRec, "feedBeesFoodTypeOther"))

\* The feeding rules that match the record and set code k.
RuleMatches(rule) ==
    \/ MatchType(rule, Get(TRec.f, "feedBeesFoodType"))
    \/ MatchAny(rule, GetSeq(TRec, "feedBeesFoodTypeOther"))
    \/ MatchContains(rule, GetSeq(TRec, "feedBeesFoodTypeOther"))
SetsCode(rule, k) == \E j \in 1..Len(rule.set) : rule.set[j][1] = k
MatchingRules(k) ==
    {i \in 1..Len(tin.m.feeding_rules) :
        RuleMatches(tin.m.feeding_rules[i]) /\ SetsCode(tin.m.feeding_rules[i], k)}
LastOf(set) == CHOOSE i \in set : \A j \in set : j <= i
ValueOf(rule, k) ==
    rule.set[LastOf({j \in 1..Len(rule.set) : rule.set[j][1] = k})][2]

\* C7: when rules of several tables set the same destination item code, the
\* payload's item is the one set by the last table in the order field_map,
\* enums, stages_flags, feeding_rules; when several feeding rules match and
\* set the same code, it is the value of the last matching rule in declared
\* order.
C7_RuleOrder ==
    Transformed =>
        /\ DOMAIN TItems = (DOMAIN ByFieldMap) \cup (DOMAIN ByEnums)
                               \cup (DOMAIN ByStages) \cup (DOMAIN ByFeeding)
        /\ \A k \in DOMAIN TItems :
              TItems[k] = IF k \in DOMAIN ByFeeding THEN ByFeeding[k]
                          ELSE IF k \in DOMAIN ByStages THEN ByStages[k]
                          ELSE IF k \in DOMAIN ByEnums THEN ByEnums[k]
                          ELSE ByFieldMap[k]
        /\ \A k \in DOMAIN TItems :
              MatchingRules(k) # {} =>
                  TItems[k] = ValueOf(tin.m.feeding_rules[LastOf(MatchingRules(k))], k)
        /\ \A k \in DOMAIN ByFeeding : MatchingRules(k) # {}

\* All four tables set code 700 and two matching feeding rules set it to
\* different values.
C7_Witness ==
    /\ Transformed
    /\ "700" \in (DOMAIN ByFieldMap) \cap (DOMAIN ByEnums)
                     \cap (DOMAIN ByStages) \cap (DOMAIN ByFeeding)
    /\ \E i, j \in MatchingRules("700") :
          /\ i < j
          /\ ValueOf(tin.m.feeding_rules[i], "700")
                # ValueOf(tin.m.feeding_rules[j], "700")

\* The names of the checklist reference: the entries with a name and an id.
RefNames ==
    {tin.checklists[i].name : i \in {j \in 1..Len(tin.checklists) :
        Truthy(tin.checklists[j].name) /\ Truthy(tin.checklists[j].id)}}
RefId(name) ==
    tin.checklists[CHOOSE i \in 1..Len(tin.checklists) :
                       tin.checklists[i].name = name].id
\* The names of all entries of the checklist list.
ListNames == {tin.checklists[i].name : i \in 1..Len(tin.checklists)}

\* Checklist id and reminder as the claim resolves them, names being the
\* names in the reference.
Resolved(names) ==
    LET type == Get(TRec.f, "type")
        fallback == tin.m.checklist_fallback
    IN IF type \in names
       THEN /\ TPayload.checklist_id = RefId(type)
            /\ TPayload.reminder = None
       ELSE /\ TPayload.checklist_id =
                  IF fallback \in names THEN RefId(fallback) ELSE None
            /\ TPayload.reminder.t = "str"
            /\ TPayload.reminder.v =
                  "Missing: " \o type.v \o "/" \o Get(TRec.f, "typeOther").v

\* C8 as stated: checklist_id is the id of the checklist named by the
\* record's type (reminder null), else that of the fallback checklist, else
\* null (reminder a string naming type and typeOther); the provenance's
\* checklist_id is the same value as the payload's, null included.
C8_ProvenanceSameValue ==
    Transformed =>
        /\ Resolved(ListNames)
        /\ tout.out[1].checklist_id = TPayload.checklist_id

\* C8 amended: the same resolution over the checklists that have a name and an
\* id (the others are not part of the reference); the provenance's
\* checklist_id is the text of the payload's: the id's digits as a string,
\* and the string "None" when the payload's checklist_id is null.
C8_ChecklistResolution ==
    Transformed =>
        /\ Resolved(RefNames)
        /\ tout.out[1].checklist_id.t = "str"
        /\ tout.out[1].checklist_id.v =
              IF TPayload.checklist_id = None THEN "None"
              ELSE TPayload.checklist_id.v

\* A record of an unknown type with no fallback checklist: the payload's
\* checklist_id is null, the provenance's is the string "None".
C8_Witness ==
    /\ Transformed
    /\ Get(TRec.f, "type") = S("Foo")
    /\ TPayload.checklist_id = None
    /\ tout.out[1].checklist_id = S("None")
    /\ TPayload.reminder = S("Missing: Foo/misc")

\* Spec section 8's examples: hive names A and Unknown resolve to the one
\* known id; the date loses its fraction.
TransformExamples ==
    Transformed =>
        /\ TPayload.hive_ids = <<I("11")>>
        /\ TPayload.date = S("2024-05-11T12:34:56Z")

====
